---- MODULE Spec2Model ----
(***************************************************************************)
(* Transactional orchestration core of realworld-fastapi-ddd:              *)
(*   - EventBus (app/events/core.py)                                       *)
(*   - PersistentEventBus (app/events/infrastructure/persistent_bus.py)    *)
(*   - AsyncUnitOfWork (app/adapters/orm/unit_of_work.py)                  *)
(*   - transactional(), TransactionalService and BulkTransactionManager    *)
(*     (app/shared/transaction.py)                                         *)
(*   - CommentRepository.add (app/adapters/repository/comments.py)         *)
(*                                                                         *)
(* Every await and every handler call is a step of its own, so that the    *)
(* order of session calls and handler invocations is observable.           *)
(***************************************************************************)
EXTENDS Integers, Sequences, FiniteSets, TLC

\* ---------------------------------------------------------------- bounds
\* total number of subscribe / subscribe_async calls made on the bus
MaxSubs == 2
\* statements (repository writes, publishes) one business function executes
MaxFuncSteps == 1
\* operations queued on one BulkTransactionManager
MaxOps == 2
\* publish / publish_async calls made on one PersistentEventBus
MaxPublishes == 3
\* wrapped calls running concurrently under one asyncio.gather
MaxCalls == 2
\* positional arguments a caller passes to a wrapped function
MaxArgs == 2
\* engines built by get_async_engine in one run
MaxEngines == 3
\* execute_all calls made on one BulkTransactionManager
MaxRuns == 2
\* register_all_event_handlers calls (lifespan startups) in one process
MaxRegistrations == 2

\* ------------------------------------------------------------ value sets
\* event classes: DomainEvent is the base class of the two concrete events
EventTypes == {"DomainEvent", "UserRegistered", "ArticleCreated"}
\* handler functions handed to subscribe / subscribe_async
Handlers == {"H1", "H2"}
\* the queued closures of a bulk transaction
Ops == {"op1", "op2"}
\* "no value": no exception in flight, no handler running, no session
None == "None"

\* class UserRegistered(DomainEvent), class ArticleCreated(DomainEvent):
\* the class itself and its base classes
Bases(cls) == {cls, "DomainEvent"}

\* variant: only the event's own class matches
IsInstanceExact(cls, event_type) == event_type = cls

\* the event classes other than the base class
ConcreteEvents == EventTypes \ {"DomainEvent"}

\* isinstance(event, event_type) for an event whose class is cls
IsInstance(cls, event_type) == event_type = cls \/ event_type = "DomainEvent"

VARIABLES
    subscribers,        \* EventBus._subscribers: dict in insertion order,
                        \*   a sequence of [event_type, handlers]
    async_subscribers,  \* EventBus._async_subscribers, same shape
    subCount,           \* number of subscribe calls so far (stamps entries)
    pub,                \* frame of the publish / publish_async call in progress
    trace,              \* handler invocations of the current publish call
    log_file,           \* PersistentEventBus.log_file: the lines of the file
                        \*   (a missing file and an empty one both read as <<>>)
    pubs,               \* publish calls made on the persistent bus (history)
    replayed,           \* what the latest replay_events call returned
    tx,                 \* frame of the wrapper / execute_all call that is running
                        \*   (queued, handlerFailed, afterClear: history only)
    tasks,              \* frames of the concurrent calls, by call number; the
                        \*   slot of the running call holds a placeholder
    sessions,           \* every AsyncSession created so far, by creation order
    db,                 \* rows durably committed to the database
    operations,         \* BulkTransactionManager._operations
    cleared,            \* clear() calls made since the last add_operation
                        \*   and the queue length they dropped (history)
    opTrace,            \* operation invocations of the current execute_all
    environ,            \* the process environment the settings are read from
    _engine_instance,   \* engine.py globals: number of the cached engine, 0
    _engine_url,        \*   for None; the url and the test mode recorded
    _engine_test_mode,  \*   with it
    engines,            \* every engine create_async_engine built (history)
    engineCall,         \* the latest get_async_engine call and the one
                        \*   before it (history)
    service_uow         \* CommentServiceOriginal.uow.session: number of the
                        \*   session the service's one UoW holds, 0 for None

engineVars == <<environ, _engine_instance, _engine_url, _engine_test_mode,
                engines, engineCall>>

vars == <<subscribers, async_subscribers, subCount, pub, trace, log_file, pubs,
          replayed, tx, tasks, sessions, db, operations, cleared, opTrace,
          engineVars, service_uow>>

logVars == <<log_file, pubs, replayed>>
busVars == <<subscribers, async_subscribers, subCount, pub, trace, logVars>>
txVars == <<tx, tasks, sessions, db, operations, cleared, opTrace>>

\* ------------------------------------------------------------- event bus
\* position reached when both loops of publish are exhausted
EndPos == [ti |-> 0, hi |-> 0]

\* The nested for-loops of publish: the first position at or after (ti, hi),
\* in dict order then list order, whose event type matches the event.
RECURSIVE LoopPos(_, _, _, _)
LoopPos(reg, cls, ti, hi) ==
    IF ti > Len(reg) THEN EndPos
    ELSE IF IsInstance(cls, reg[ti].event_type) /\ hi <= Len(reg[ti].handlers)
         THEN [ti |-> ti, hi |-> hi]
         ELSE LoopPos(reg, cls, ti + 1, 1)

\* index of event_type among the dict's keys, 0 when it is not a key
KeyIndex(reg, event_type) ==
    IF \E i \in 1..Len(reg) : reg[i].event_type = event_type
    THEN CHOOSE i \in 1..Len(reg) : reg[i].event_type = event_type
    ELSE 0

\* variant: the handler is put at the head of the list
PrependHandler(handlers, entry) == <<entry>> \o handlers

\* list.append(handler)
AppendHandler(handlers, entry) == Append(handlers, entry)

\* the body shared by subscribe and subscribe_async
Subscribed(reg, event_type, entry) ==
    LET withKey == IF KeyIndex(reg, event_type) = 0
                   THEN Append(reg, [event_type |-> event_type, handlers |-> <<>>])
                   ELSE reg
        k == KeyIndex(withKey, event_type)
    IN [withKey EXCEPT ![k].handlers = AppendHandler(@, entry)]

\* no publish call and no wrapper / execute_all call is in progress
Idle == pub.status \in {"idle", "returned", "raised"} /\ tx.pc \in {"idle", "done"}

\* handlers are registered before the first service call is made and before
\* the first event is published on the persistent bus
Startup == Idle /\ tx.pc = "idle" /\ pubs = <<>>

subscribe(event_type, handler) ==
    /\ Startup
    /\ subCount < MaxSubs
    /\ subscribers' = Subscribed(subscribers, event_type,
                                 [handler |-> handler, seq |-> subCount + 1,
                                  via |-> "subscribe"])
    /\ subCount' = subCount + 1
    /\ UNCHANGED <<engineVars, service_uow,
                   async_subscribers, pub, trace, logVars, txVars>>

subscribe_async(event_type, handler) ==
    /\ Startup
    /\ subCount < MaxSubs
    /\ async_subscribers' = Subscribed(async_subscribers, event_type,
                                       [handler |-> handler, seq |-> subCount + 1,
                                        via |-> "subscribe_async"])
    /\ subCount' = subCount + 1
    /\ UNCHANGED <<engineVars, service_uow,
                   subscribers, pub, trace, logVars, txVars>>

\* ------------------------------------------- register_all_event_handlers
\* the subscribe calls register_all_handlers makes for the modelled event
\* types, in the order the register_* functions make them
Registrations ==
    <<[api |-> "subscribe", event_type |-> "ArticleCreated",
       handler |-> "handle_article_created"],
      [api |-> "subscribe_async", event_type |-> "ArticleCreated",
       handler |-> "async_handle_article_created"],
      [api |-> "subscribe_async", event_type |-> "UserRegistered",
       handler |-> "handle_user_registered"],
      [api |-> "subscribe_async", event_type |-> "UserRegistered",
       handler |-> "handle_user_registered_for_recommendations"],
      [api |-> "subscribe_async", event_type |-> "ArticleCreated",
       handler |-> "handle_article_created_for_notifications"]>>

\* shared_event_bus.subscribe(...) / subscribe_async(...) for registration r,
\* the n-th subscribe call made on the bus
Register(reg, r, n) ==
    Subscribed(reg, r.event_type, [handler |-> r.handler, seq |-> n, via |-> r.api])

\* the registry of the given api after the registrations from the k-th on
RECURSIVE RegisterAll(_, _, _)
RegisterAll(reg, api, k) ==
    IF k > Len(Registrations) THEN reg
    ELSE RegisterAll(IF Registrations[k].api = api
                     THEN Register(reg, Registrations[k], subCount + k)
                     ELSE reg,
                     api, k + 1)

\* lifespan startup: register_all_event_handlers() -> register_all_handlers()
register_all_event_handlers ==
    /\ Idle
    /\ subCount < MaxRegistrations * Len(Registrations)
    /\ subscribers' = RegisterAll(subscribers, "subscribe", 1)
    /\ async_subscribers' = RegisterAll(async_subscribers, "subscribe_async", 1)
    /\ subCount' = subCount + Len(Registrations)
    /\ UNCHANGED <<engineVars, service_uow, pub, trace, logVars, txVars>>

\* variant: publish_async iterates the registry of the sync handlers
RegistryShared(kind) == subscribers

\* the registry a publish call of the given kind iterates
Registry(kind) == IF kind = "sync" THEN subscribers ELSE async_subscribers

\* frame of a publish call that has just been entered
PublishFrame(kind, cls) ==
    [kind |-> kind, event |-> cls, status |-> "iterating", running |-> FALSE,
     pos |-> LoopPos(Registry(kind), cls, 1, 1), subs |-> subCount,
     keys |-> Len(Registry(kind)),
     bus |-> "EventBus"]

NoPublish == [kind |-> None, event |-> None, status |-> "idle",
              running |-> FALSE, pos |-> EndPos, subs |-> 0, keys |-> 0,
              bus |-> None]

\* publish(event) called from top level
publish(cls) ==
    /\ Idle
    /\ pub' = PublishFrame("sync", cls)
    /\ trace' = <<>>
    /\ UNCHANGED <<engineVars, service_uow,
                   subscribers, async_subscribers, subCount, logVars, txVars>>

\* publish_async(event) awaited from top level
publish_async(cls) ==
    /\ Idle
    /\ pub' = PublishFrame("async", cls)
    /\ trace' = <<>>
    /\ UNCHANGED <<engineVars, service_uow,
                   subscribers, async_subscribers, subCount, logVars, txVars>>

\* the subscription entry the loops currently point at
CurrentEntry == Registry(pub.kind)[pub.pos.ti].handlers[pub.pos.hi]

TraceRec(ev) ==
    [ev |-> ev, event_type |-> Registry(pub.kind)[pub.pos.ti].event_type,
     ti |-> pub.pos.ti, hi |-> pub.pos.hi,
     handler |-> CurrentEntry.handler, seq |-> CurrentEntry.seq,
     via |-> CurrentEntry.via]

\* handler(event) / await handler(event): the loop does not go on to the
\* next handler while the current one has not returned
HandlerAwaited(p) == ~p.running

\* the call of the handler at the current loop position begins
HandlerStart ==
    /\ pub.status = "iterating"
    /\ pub.pos # EndPos
    /\ HandlerAwaited(pub)
    /\ trace' = Append(trace, TraceRec("start"))
    /\ pub' = [pub EXCEPT !.running = TRUE]
    /\ UNCHANGED <<engineVars, service_uow,
                   subscribers, async_subscribers, subCount, logVars, txVars>>

\* variant: the handler call is not wrapped in try / except
HandlerGuardNoTry(outcome) == IF outcome = "raise" THEN "propagate" ELSE "continue"

\* try: handler(event) / except Exception: logger.error(...)
\* what the loop does with the way a handler call ended
HandlerGuard(outcome) == "continue"

\* the running handler calls shared_event_bus.subscribe(event_type, handler)
\* or subscribe_async(event_type, handler)
handler_subscribes(api, event_type, handler) ==
    /\ pub.status = "iterating"
    /\ pub.running
    /\ subCount < MaxSubs
    /\ LET entry == [handler |-> handler, seq |-> subCount + 1, via |-> api]
       IN IF api = "subscribe"
          THEN /\ subscribers' = Subscribed(subscribers, event_type, entry)
               /\ UNCHANGED async_subscribers
          ELSE /\ async_subscribers' = Subscribed(async_subscribers, event_type, entry)
               /\ UNCHANGED subscribers
    /\ subCount' = subCount + 1
    /\ UNCHANGED <<engineVars, service_uow, pub, trace, logVars, txVars>>

\* the inner loop is exhausted and the dict got a new key since the outer loop
\* began: the next step of the iterator over .items() raises RuntimeError
\* ("dictionary changed size during iteration"), outside the try of the handler
DictChanged ==
    /\ pub.pos.hi + 1 > Len(Registry(pub.kind)[pub.pos.ti].handlers)
    /\ Len(Registry(pub.kind)) # pub.keys

\* the running handler returns or raises an Exception
HandlerEnd(outcome) ==
    /\ pub.status = "iterating"
    /\ pub.running
    /\ trace' = Append(trace, TraceRec(outcome))
    /\ pub' = IF HandlerGuard(outcome) = "continue" /\ ~DictChanged
              THEN [pub EXCEPT !.running = FALSE,
                               !.pos = LoopPos(Registry(pub.kind), pub.event,
                                               pub.pos.ti, pub.pos.hi + 1)]
              ELSE [pub EXCEPT !.running = FALSE, !.status = "raised"]
    /\ UNCHANGED <<engineVars, service_uow,
                   subscribers, async_subscribers, subCount, logVars, txVars>>

\* both loops are exhausted: publish returns None to its caller
PublishReturn ==
    /\ pub.status = "iterating"
    /\ ~pub.running
    /\ pub.pos = EndPos
    /\ tx.pc # "in_publish"
    /\ pub' = [pub EXCEPT !.status = "returned"]
    /\ UNCHANGED <<engineVars, service_uow,
                   subscribers, async_subscribers, subCount, trace, logVars, txVars>>

\* ---------------------------------------------------- PersistentEventBus
NoReplay == [filter |-> None, events |-> <<>>, at |-> 0, during |-> FALSE,
             called |-> FALSE, failed |-> FALSE]

\* event.__class__.__module__
EventModule(cls) ==
    CASE cls = "UserRegistered" -> "app.events.domain.users"
      [] cls = "ArticleCreated" -> "app.events.domain.articles"
      [] OTHER -> "app.events.core"

\* event.__dict__: the fields the event's constructor sets
EventDict(cls) ==
    CASE cls = "UserRegistered" -> <<<<"user_id", 1>>, <<"username", "a">>>>
      [] cls = "ArticleCreated" -> <<<<"article_id", 1>>, <<"author_id", 1>>>>
      [] OTHER -> <<>>

\* _serialize_event(event): the dict (in insertion order) of the event
\* published by the now-th publish call; datetime.utcnow() reads the clock
\* once per call, and its reading is the ordinal of the call
_serialize_event(cls, now) ==
    <<<<"timestamp", now>>, <<"event_type", cls>>,
      <<"event_module", EventModule(cls)>>, <<"data", EventDict(cls)>>>>

\* json.dumps(serialized) + "\n": one line of text holding the object's
\* members in order
json_dumps(obj) == [text |-> obj, eol |-> TRUE]

\* value of key in the parsed members, None when the key is missing (dict.get)
Member(members, key) ==
    IF \E i \in 1..Len(members) : members[i][1] = key
    THEN members[CHOOSE i \in 1..Len(members) : members[i][1] = key][2]
    ELSE None

\* json.loads(line): the dict of the object written on the line
json_loads(line) ==
    [timestamp |-> Member(line.text, "timestamp"),
     event_type |-> Member(line.text, "event_type"),
     event_module |-> Member(line.text, "event_module"),
     data |-> Member(line.text, "data")]

\* variant: the file is opened with mode "w"
FileWriteTruncating(file, line) == <<line>>

\* with open(self.log_file, "a") as f: f.write(line)
FileAppend(file, line) == Append(file, line)

\* variant: publish_async is not overridden and goes straight to dispatch
PublishEntrySyncOnly(kind) == IF kind = "sync" THEN "logging" ELSE "iterating"

\* the first statement of the overridden publish / publish_async:
\* self._log_event(event)
PublishEntry(kind) == "logging"

PersistentFrame(kind, cls) ==
    [PublishFrame(kind, cls) EXCEPT !.status = PublishEntry(kind),
                                    !.bus = "PersistentEventBus"]

\* PersistentEventBus.publish(event) called from top level
PersistentEventBus_publish(cls) ==
    /\ Idle
    /\ Len(pubs) < MaxPublishes
    /\ pub' = PersistentFrame("sync", cls)
    /\ trace' = <<>>
    /\ pubs' = Append(pubs, [event |-> cls, logged |-> "pending"])
    /\ replayed' = NoReplay
    /\ UNCHANGED <<engineVars, service_uow,
                   subscribers, async_subscribers, subCount, log_file, txVars>>

\* PersistentEventBus.publish_async(event) awaited from top level
PersistentEventBus_publish_async(cls) ==
    /\ Idle
    /\ Len(pubs) < MaxPublishes
    /\ pub' = PersistentFrame("async", cls)
    /\ trace' = <<>>
    /\ pubs' = Append(pubs, [event |-> cls, logged |-> "pending"])
    /\ replayed' = NoReplay
    /\ UNCHANGED <<engineVars, service_uow,
                   subscribers, async_subscribers, subCount, log_file, txVars>>

\* variant: _log_event has no try / except
LogGuardNoTry(ok) == IF ok THEN "iterating" ELSE "raised"

\* try: ... except Exception as e: logger.error(...)
\* how publish goes on after _log_event, whether or not the write succeeded
LogGuard(ok) == "iterating"

\* _log_event(event): serializing or opening / writing the file may raise
\* (ok = FALSE), and then nothing is written
_log_event(ok) ==
    /\ pub.status = "logging"
    /\ log_file' = IF ok
                   THEN FileAppend(log_file,
                                   json_dumps(_serialize_event(pub.event, Len(pubs))))
                   ELSE log_file
    /\ pubs' = [pubs EXCEPT ![Len(pubs)].logged = IF ok THEN "yes" ELSE "no"]
    /\ pub' = [pub EXCEPT !.status = LogGuard(ok)]
    /\ UNCHANGED <<engineVars, service_uow,
                   subscribers, async_subscribers, subCount, trace, replayed,
                   txVars>>

\* the lines of the file the for loop of replay_events gets through when the
\* read raises at line failAt (0: the read does not raise)
LinesRead(file, failAt) == IF failAt = 0 THEN file ELSE SubSeq(file, 1, failAt - 1)

\* event_filter is None or event_data.get("event_type") == event_filter
FilterMatches(event_data, event_filter) ==
    event_filter = None \/ event_data.event_type = event_filter

\* the list replay_events builds: for line in f: event_data = json.loads(line);
\* if <filter matches>: events.append(event_data); an exception while
\* reading is logged and the events collected so far are returned
ReplayedEvents(file, event_filter, failAt) ==
    LET lines == LinesRead(file, failAt)
        parsed == [i \in 1..Len(lines) |-> json_loads(lines[i])]
    IN SelectSeq(parsed, LAMBDA event_data : FilterMatches(event_data, event_filter))

\* replay_events(event_filter), called from top level or by a running handler
replay_events(event_filter, failAt) ==
    /\ pub.running \/ Idle
    /\ pub.bus # "EventBus"
    /\ replayed' = [filter |-> event_filter,
                    events |-> ReplayedEvents(log_file, event_filter, failAt),
                    at |-> Len(pubs), during |-> pub.running, called |-> TRUE,
                    failed |-> failAt # 0]
    /\ UNCHANGED <<engineVars, service_uow,
                   subscribers, async_subscribers, subCount, pub, trace,
                   log_file, pubs, txVars>>

\* ------------------------------------------------------------ unit of work
\* exceptions, by the place that raises them
BusinessError == "BusinessError"          \* raised by the business function
RepoCommitError == "RepoCommitError"      \* session.commit() inside a repository
ExitCommitError == "ExitCommitError"      \* session.commit() in __aexit__
ExitRollbackError == "ExitRollbackError"  \* session.rollback() in __aexit__
HandlerError == "HandlerError"            \* an event handler's exception
CancelledError == "CancelledError"        \* asyncio.CancelledError (task.cancel())

\* isinstance(e, Exception): CancelledError derives from BaseException only
IsException(e) == e # CancelledError

\* the value a business function returns (create_user's UserRead)
FuncResult == "UserRead"
\* the value the operation op returns
OpResult(op) == [result_of |-> op]

NoOutcome == [kind |-> None, value |-> None]

IdleTx == [pc |-> "idle", id |-> 0, kind |-> None, reraise |-> TRUE,
           log_errors |-> TRUE, args |-> <<>>, fcalls |-> <<>>, logged |-> FALSE,
           uow |-> 0, steps |-> 0, exc |-> None, cleanup |-> None,
           result |-> None, results |-> <<>>, opi |-> 0, queued |-> <<>>,
           handlerFailed |-> FALSE, afterClear |-> FALSE, outcome |-> NoOutcome,
           run |-> 0]

\* AsyncSession(engine, ...): a new session with no pending write
NewSession == [open |-> TRUE, pending |-> {}, log |-> <<>>]

\* AsyncUnitOfWork() followed by __aenter__: the UoW gets a session of its own
Aenter(ss) == Append(ss, NewSession)

\* one awaited session call, recorded with where it was made and how it ended
Call(op, at, ok) == [op |-> op, at |-> at, ok |-> ok]

\* session.add(entity) + flush: the row is pending in the open transaction
SessionAdd(s, row) == [s EXCEPT !.pending = @ \cup {row}]

\* await session.commit(): on success the pending rows become durable
SessionCommit(s, at, ok) ==
    [s EXCEPT !.pending = IF ok THEN {} ELSE @,
              !.log = Append(@, Call("commit", at, ok))]

\* the rows a successful commit of session s adds to the database
Committed(s, ok) == IF ok THEN s.pending ELSE {}

\* await session.rollback(): on success the pending rows are discarded
SessionRollback(s, at, ok) ==
    [s EXCEPT !.pending = IF ok THEN {} ELSE @,
              !.log = Append(@, Call("rollback", at, ok))]

\* await session.close(): the connection is released, pending rows are lost
SessionClose(s) ==
    [s EXCEPT !.open = FALSE, !.pending = {},
              !.log = Append(@, Call("close", "exit", TRUE))]

\* the row written by the current statement of the current call
NewRow == [session |-> tx.uow, op |-> tx.opi, step |-> tx.steps + 1]

\* ------------------------------------------------- business function body
InBody == tx.pc = "in_func" /\ tx.steps < MaxFuncSteps

\* the body raised e: the async-with block is left with the exception
\* (in execute_all: except Exception: logger.error(...); raise)
BodyRaised(t, e) == [t EXCEPT !.pc = "exit_first", !.exc = e]

\* variant: the newest result is put at the head of the list
PrependResult(results, v) == <<v>> \o results

\* results.append(result)
AppendResult(results, v) == Append(results, v)

\* the body returned v
BodyReturned(t, v) ==
    IF t.kind = "bulk"
    THEN [t EXCEPT !.pc = "bulk_loop", !.results = AppendResult(@, v),
                   !.opi = @ + 1, !.steps = 0]
    ELSE [t EXCEPT !.pc = "exit_first", !.result = v]

\* CommentRepository.add / UserRepository.add:
\* session.add(entity); await session.commit(); await session.refresh(entity)
CommentRepository_add(ok) ==
    /\ InBody
    /\ LET s == SessionAdd(sessions[tx.uow], NewRow)
       IN /\ sessions' = [sessions EXCEPT ![tx.uow] = SessionCommit(s, "body", ok)]
          /\ db' = db \cup Committed(s, ok)
    /\ tx' = IF ok THEN [tx EXCEPT !.steps = @ + 1]
             ELSE BodyRaised(tx, RepoCommitError)
    /\ UNCHANGED <<engineVars, service_uow,
                   busVars, operations, cleared, opTrace, tasks>>

\* AsyncRepository.add: session.add(entity); await session.flush(); refresh
AsyncRepository_add ==
    /\ InBody
    /\ sessions' = [sessions EXCEPT ![tx.uow] = SessionAdd(@, NewRow)]
    /\ tx' = [tx EXCEPT !.steps = @ + 1]
    /\ UNCHANGED <<engineVars, service_uow,
                   busVars, db, operations, cleared, opTrace, tasks>>

\* variant: publish only schedules the handlers and returns to the function
PublishScheduled == "in_func"

\* publish is a plain call and publish_async is awaited: the function stays
\* in the call until the loops over the handlers are exhausted
PublishCalled == "in_publish"

\* shared_event_bus.publish(event) / await shared_event_bus.publish_async(event)
\* called by the business function
FuncPublish(kind, cls) ==
    /\ InBody
    /\ tx.kind = "transactional"
    /\ pub' = PublishFrame(kind, cls)
    /\ trace' = <<>>
    /\ tx' = [tx EXCEPT !.pc = PublishCalled, !.steps = @ + 1]
    /\ UNCHANGED <<engineVars, service_uow,
                   subscribers, async_subscribers, subCount, logVars, sessions,
                   db, operations, cleared, opTrace, tasks>>

\* the publish call made by the business function is over: the function goes
\* on with its next statement, or the exception publish let out is raised in it
FuncPublishDone ==
    /\ tx.pc = "in_publish"
    /\ ~pub.running
    /\ \/ pub.status = "iterating" /\ pub.pos = EndPos
       \/ pub.status = "raised"
    /\ pub' = NoPublish
    /\ trace' = <<>>
    /\ LET failed == \E i \in 1..Len(trace) : trace[i].ev = "raise"
           t == [tx EXCEPT !.pc = "in_func", !.handlerFailed = @ \/ failed]
       IN tx' = IF pub.status = "raised" THEN BodyRaised(t, HandlerError) ELSE t
    /\ UNCHANGED <<engineVars, service_uow,
                   subscribers, async_subscribers, subCount, logVars, sessions,
                   db, operations, cleared, opTrace, tasks>>

\* return <value>
FuncReturn ==
    /\ tx.pc = "in_func"
    /\ tx' = BodyReturned(tx, IF tx.kind = "bulk"
                              THEN OpResult(operations[tx.opi]) ELSE FuncResult)
    /\ UNCHANGED <<engineVars, service_uow,
                   busVars, sessions, db, operations, cleared, opTrace, tasks>>

\* raise <business exception>
FuncRaise ==
    /\ tx.pc = "in_func"
    /\ tx' = BodyRaised(tx, BusinessError)
    /\ UNCHANGED <<engineVars, service_uow,
                   busVars, sessions, db, operations, cleared, opTrace, tasks>>

\* the task running the call is cancelled while the function is suspended at
\* an await: CancelledError is raised into the function there
FuncCancelled ==
    /\ tx.pc = "in_func"
    /\ tx.kind = "transactional"
    /\ tx' = BodyRaised(tx, CancelledError)
    /\ UNCHANGED <<engineVars, service_uow, busVars, sessions, db, operations,
                   cleared, opTrace, tasks>>

\* ------------------------------------------------ AsyncUnitOfWork.__aexit__
\* variant: the scope exit rolls back whatever happened in the body
AexitAlwaysRollback(exc) == "rollback"

\* variant: the scope exit commits whatever happened in the body
AexitAlwaysCommit(exc) == "commit"

\* variant: only an Exception makes the scope exit roll back
AexitExceptionOnly(exc) ==
    IF exc # None /\ IsException(exc) THEN "rollback" ELSE "commit"

\* try: if exc_type: await session.rollback() else: await session.commit()
AexitFirstCall(exc) == IF exc # None THEN "rollback" ELSE "commit"

\* the error a failing first call raises
FirstCallError(op) == IF op = "commit" THEN ExitCommitError ELSE ExitRollbackError

\* where __aexit__ goes after its first call: on to the finally clause, or
\* into the except clause when the call raised
AfterFirstCall(ok) == IF ok THEN "exit_close" ELSE "exit_cleanup"

\* variant: session.close() is not in a finally clause
AfterCleanupNoFinally == "after_with"

\* the except clause ends in a bare raise, which the finally clause intercepts
AfterCleanup == "exit_close"

\* self.session of the UoW whose scope call t is leaving: the session the
\* UoW created when t entered it, unless the UoW is the one a
\* CommentServiceOriginal holds, whose session attribute the latest entry set
SelfSession(t) == IF t.kind = "original" THEN service_uow ELSE t.uow

ExitFirst(ok) ==
    /\ tx.pc = "exit_first"
    /\ LET op == AexitFirstCall(tx.exc)
           s == sessions[SelfSession(tx)]
       IN /\ sessions' = [sessions EXCEPT ![SelfSession(tx)] =
                             IF op = "commit" THEN SessionCommit(s, "exit", ok)
                             ELSE SessionRollback(s, "exit", ok)]
          /\ db' = IF op = "commit" THEN db \cup Committed(s, ok) ELSE db
          /\ tx' = [tx EXCEPT !.pc = AfterFirstCall(ok),
                              !.cleanup = IF ok THEN None ELSE FirstCallError(op)]
    /\ UNCHANGED <<engineVars, service_uow,
                   busVars, operations, cleared, opTrace, tasks>>

\* except Exception as e: logger.error; try: await session.rollback()
\* except Exception: logger.error; raise
ExitCleanup(ok) ==
    /\ tx.pc = "exit_cleanup"
    /\ sessions' = [sessions EXCEPT ![SelfSession(tx)] = SessionRollback(@, "cleanup", ok)]
    /\ tx' = [tx EXCEPT !.pc = AfterCleanup]
    /\ UNCHANGED <<engineVars, service_uow,
                   busVars, db, operations, cleared, opTrace, tasks>>

\* finally: await session.close()
ExitClose ==
    /\ tx.pc = "exit_close"
    /\ sessions' = [sessions EXCEPT ![SelfSession(tx)] = SessionClose(@)]
    /\ tx' = [tx EXCEPT !.pc = "after_with"]
    /\ UNCHANGED <<engineVars, service_uow,
                   busVars, db, operations, cleared, opTrace, tasks>>

\* the exception that leaves the async-with block: the one __aexit__ raised
\* (bare raise of the commit / rollback error), else the one the body raised
\* (__aexit__ returns None and so never suppresses it)
Propagating(t) == IF t.cleanup # None THEN t.cleanup ELSE t.exc

\* ------------------------------------------------- transactional() wrapper
\* the values a caller passes: a service object that has an attribute named
\* like the wrapped function (its own method), and two objects that have not
ArgValues == {"svc", "x", "y"}

\* the UoW the wrapper constructed, as an argument of func
UowArg == "uow"

\* hasattr(arg, func.__name__)
HasAttr(arg) == arg = "svc"

\* variant: the UoW is always put first
CallArgsUowFirst(args) == <<UowArg>> \o args

\* if args and hasattr(args[0], func.__name__): func(args[0], uow, *args[1:])
\* else: func(uow, *args)
CallArgs(args) ==
    IF args # <<>> /\ HasAttr(args[1])
    THEN <<args[1], UowArg>> \o Tail(args)
    ELSE <<UowArg>> \o args

\* variant: every call uses the one UoW (and session) created first
SharedUow(ss) == 1

\* AsyncUnitOfWork(): the UoW constructed by this call, numbered like the
\* session its __aenter__ creates
NewUow(ss) == Len(ss) + 1

\* wrapper(*args): async with AsyncUnitOfWork() as uow: result = await func(uow, ...)
transactional(reraise, log_errors, args) ==
    /\ Idle
    /\ tx.pc = "idle"
    /\ sessions' = Aenter(sessions)
    /\ tx' = [IdleTx EXCEPT !.id = tx.id, !.pc = "in_func",
                            !.kind = "transactional",
                            !.reraise = reraise, !.log_errors = log_errors,
                            !.args = args, !.fcalls = <<CallArgs(args)>>,
                            !.uow = NewUow(sessions)]
    /\ UNCHANGED <<engineVars, service_uow,
                   busVars, db, operations, cleared, opTrace, tasks>>

\* TransactionalService._execute_in_transaction(operation):
\* async with AsyncUnitOfWork() as uow: result = await operation(uow)
_execute_in_transaction(reraise, log_errors) ==
    /\ Idle
    /\ tx.pc = "idle"
    /\ sessions' = Aenter(sessions)
    /\ tx' = [IdleTx EXCEPT !.id = tx.id, !.pc = "in_func", !.kind = "service",
                            !.reraise = reraise, !.log_errors = log_errors,
                            !.fcalls = <<<<UowArg>>>>,
                            !.uow = NewUow(sessions)]
    /\ UNCHANGED <<engineVars, service_uow,
                   busVars, db, operations, cleared, opTrace, tasks>>

\* variant: the except clause re-raises whatever the flag says
WrapperAlwaysRaises(reraise, e) == [kind |-> "raised", value |-> e]

\* except Exception as e: ... if reraise: raise; return None
WrapperExcept(reraise, e) ==
    IF reraise \/ ~IsException(e) THEN [kind |-> "raised", value |-> e]
    ELSE [kind |-> "returned", value |-> None]

\* the async-with block is left: return result, or the except clause runs
\* (if log_errors: logger.error(...))
WrapperFinish ==
    /\ tx.pc = "after_with"
    /\ tx.kind = "transactional"
    /\ tx' = [tx EXCEPT !.pc = "done",
                        !.logged = /\ Propagating(tx) # None
                                   /\ IsException(Propagating(tx))
                                   /\ tx.log_errors,
                        !.outcome = IF Propagating(tx) # None
                                    THEN WrapperExcept(tx.reraise, Propagating(tx))
                                    ELSE [kind |-> "returned", value |-> tx.result]]
    /\ UNCHANGED <<engineVars, service_uow,
                   busVars, sessions, db, operations, cleared, opTrace, tasks>>

\* variant: the base service returns None whatever the flag says
ServiceAlwaysSwallows(reraise, e) == [kind |-> "returned", value |-> None]

\* _execute_in_transaction: except Exception as e: ... if reraise: raise
\*                          return None
ServiceExcept(reraise, e) ==
    IF reraise \/ ~IsException(e) THEN [kind |-> "raised", value |-> e]
    ELSE [kind |-> "returned", value |-> None]

\* _execute_in_transaction leaves its async-with block
ServiceFinish ==
    /\ tx.pc = "after_with"
    /\ tx.kind = "service"
    /\ tx' = [tx EXCEPT !.pc = "done",
                        !.logged = /\ Propagating(tx) # None
                                   /\ IsException(Propagating(tx))
                                   /\ tx.log_errors,
                        !.outcome = IF Propagating(tx) # None
                                    THEN ServiceExcept(tx.reraise, Propagating(tx))
                                    ELSE [kind |-> "returned", value |-> tx.result]]
    /\ UNCHANGED <<engineVars, service_uow,
                   busVars, sessions, db, operations, cleared, opTrace, tasks>>

\* ------------------------------------------------------- concurrent calls
\* placeholder in the slot of the call that is running
Running == [IdleTx EXCEPT !.pc = "running"]

\* the frame of call c
Frame(c) == IF tx.id = c THEN tx ELSE tasks[c]

\* asyncio.gather(*[create_user(request) for request in user_requests]):
\* n calls are scheduled, the first of them starts running
gather(n) ==
    /\ Idle
    /\ tx.pc = "idle"
    /\ tasks = <<>>
    /\ sessions = <<>>
    /\ tasks' = [i \in 1..n |-> IF i = 1 THEN Running ELSE [IdleTx EXCEPT !.id = i]]
    /\ tx' = [IdleTx EXCEPT !.id = 1]
    /\ UNCHANGED <<engineVars, service_uow,
                   busVars, sessions, db, operations, cleared, opTrace>>

\* where a call can be suspended: before an awaited database round-trip
\* (repository call, commit, rollback, close), and when it has finished
SuspensionPoints == {"in_func", "exit_first", "exit_cleanup", "exit_close", "done"}

\* the event loop suspends the running call and resumes (or starts) call i
TaskSwitch(i) ==
    /\ tx.id # 0
    /\ i # tx.id
    /\ tx.pc \in SuspensionPoints
    /\ tasks[i].pc # "done"
    /\ tasks' = [tasks EXCEPT ![tx.id] = tx, ![i] = Running]
    /\ tx' = tasks[i]
    /\ UNCHANGED <<engineVars, service_uow,
                   busVars, sessions, db, operations, cleared, opTrace>>

\* ------------------------------------------------ BulkTransactionManager
\* no clear() call was made since the last add_operation
NotCleared == [n |-> 0, dropped |-> 0]

\* self._operations.append(operation)
add_operation(op) ==
    /\ Idle
    /\ Len(operations) < MaxOps
    /\ operations' = Append(operations, op)
    /\ cleared' = NotCleared
    /\ UNCHANGED <<engineVars, service_uow,
                   busVars, tx, tasks, sessions, db, opTrace>>

\* variant: clear() removes only the operation queued last
ClearedLastOnly(ops) == SubSeq(ops, 1, Len(ops) - 1)

\* list.clear()
Cleared(ops) == <<>>

\* self._operations.clear()
clear ==
    /\ Idle
    /\ operations' = Cleared(operations)
    /\ cleared' = [n |-> IF cleared.n < 2 THEN cleared.n + 1 ELSE 2,
                   dropped |-> IF cleared.n = 0 THEN Len(operations)
                               ELSE cleared.dropped]
    /\ UNCHANGED <<engineVars, service_uow,
                   busVars, tx, tasks, sessions, db, opTrace>>

\* execute_all(): if not self._operations: return []
\*                async with AsyncUnitOfWork() as uow: results = []
execute_all ==
    /\ Idle
    /\ tx.pc = "done" => (tx.kind = "bulk" /\ tx.run < MaxRuns)
    /\ opTrace' = <<>>
    /\ IF operations = <<>>
       THEN /\ tx' = [IdleTx EXCEPT !.pc = "done", !.kind = "bulk",
                                    !.afterClear = cleared.n > 0,
                                    !.run = tx.run + 1,
                                    !.outcome = [kind |-> "returned", value |-> <<>>]]
            /\ UNCHANGED sessions
       ELSE /\ sessions' = Aenter(sessions)
            /\ tx' = [IdleTx EXCEPT !.pc = "bulk_loop", !.kind = "bulk",
                                    !.uow = Len(sessions) + 1, !.opi = 1,
                                    !.afterClear = cleared.n > 0,
                                    !.run = tx.run + 1,
                                    !.queued = operations]
    /\ UNCHANGED <<engineVars, service_uow, busVars, tasks, db, operations, cleared>>

\* for i, operation in enumerate(self._operations): result = await operation(uow)
BulkInvoke ==
    /\ tx.pc = "bulk_loop"
    /\ tx.opi <= Len(operations)
    /\ opTrace' = Append(opTrace, [op |-> operations[tx.opi], pos |-> tx.opi,
                                   uow |-> tx.uow])
    /\ tx' = [tx EXCEPT !.pc = "in_func"]
    /\ UNCHANGED <<engineVars, service_uow,
                   busVars, tasks, sessions, db, operations, cleared>>

\* the loop is exhausted: return results (leaves the async-with block)
BulkLoopDone ==
    /\ tx.pc = "bulk_loop"
    /\ tx.opi > Len(operations)
    /\ tx' = [tx EXCEPT !.pc = "exit_first", !.result = tx.results]
    /\ UNCHANGED <<engineVars, service_uow,
                   busVars, sessions, db, operations, cleared, opTrace, tasks>>

\* execute_all has no except clause around the async-with block
ExecuteAllFinish ==
    /\ tx.pc = "after_with"
    /\ tx.kind = "bulk"
    /\ tx' = [tx EXCEPT !.pc = "done",
                        !.outcome = IF Propagating(tx) # None
                                    THEN [kind |-> "raised", value |-> Propagating(tx)]
                                    ELSE [kind |-> "returned", value |-> tx.result]]
    /\ UNCHANGED <<engineVars, service_uow,
                   busVars, sessions, db, operations, cleared, opTrace, tasks>>

\* ------------------------------------------------ CommentServiceOriginal
\* add_comment_to_article(...): async with self.uow: the repositories are
\* constructed on self.uow.session right after __aenter__ has set it
add_comment_to_article ==
    /\ Idle
    /\ tx.pc = "idle"
    /\ sessions' = Aenter(sessions)
    /\ service_uow' = Len(sessions) + 1
    /\ tx' = [IdleTx EXCEPT !.id = tx.id, !.pc = "in_func", !.kind = "original",
                            !.uow = Len(sessions) + 1]
    /\ UNCHANGED <<engineVars, busVars, db, operations, cleared, opTrace, tasks>>

\* the method has no except clause around its async-with block
add_comment_finish ==
    /\ tx.pc = "after_with"
    /\ tx.kind = "original"
    /\ tx' = [tx EXCEPT !.pc = "done",
                        !.outcome = IF Propagating(tx) # None
                                    THEN [kind |-> "raised", value |-> Propagating(tx)]
                                    ELSE [kind |-> "returned", value |-> tx.result]]
    /\ UNCHANGED <<engineVars, service_uow, busVars, sessions, db, operations,
                   cleared, opTrace, tasks>>

\* ------------------------------------------------- engine.get_async_engine
\* connection strings the database settings can yield
Urls == {"postgresql+asyncpg://db_a", "postgresql+asyncpg://db_b"}

\* the values get_app_settings() can validate from the environment: AppSettings
\* declares no test_mode field; an object that carries one has it True or False
AppSettingsValues ==
    {[secret_key |-> "k"]} \cup {[secret_key |-> "k", test_mode |-> m] : m \in BOOLEAN}

\* getattr(obj, name, default)
Getattr(obj, name, default) == IF name \in DOMAIN obj THEN obj[name] ELSE default

\* the environments a process can run in
Environments ==
    [app_settings : AppSettingsValues, database_url : Urls, test_database_url : Urls]

\* if test_mode: settings = get_test_database_settings()
\* else: settings = get_database_settings();  url = str(settings.database_url)
DatabaseUrl(env, test_mode) ==
    IF test_mode THEN env.test_database_url ELSE env.database_url

\* variant: only a change of the test mode discards the cached engine
StaleTestModeOnly(url, test_mode) ==
    _engine_instance # 0 /\ _engine_test_mode # test_mode

\* _engine_instance is not None
\* and (_engine_url != url or _engine_test_mode != test_mode)
Stale(url, test_mode) ==
    _engine_instance # 0 /\ (_engine_url # url \/ _engine_test_mode # test_mode)

\* no call yet; returned: number of the engine the call returned, 0 when it
\* raised; built: the call constructed an engine
NoEngineCall == [url |-> None, test_mode |-> None, returned |-> 0, built |-> FALSE]

\* the environment of the process changes (os.environ, the .env file)
setenv(env) ==
    /\ env # environ
    /\ environ' = env
    /\ UNCHANGED <<_engine_instance, _engine_url, _engine_test_mode, engines,
                   engineCall, service_uow, busVars, txVars>>

\* get_async_engine(); ok: create_async_engine(url, ...) returns an engine
\* rather than raising (ArgumentError for a url it cannot parse)
get_async_engine(ok) ==
    LET test_mode == Getattr(environ.app_settings, "test_mode", FALSE)
        url == DatabaseUrl(environ, test_mode)
        cached == IF Stale(url, test_mode) THEN 0 ELSE _engine_instance
        this(returned, built) ==
            [url |-> url, test_mode |-> test_mode, returned |-> returned,
             built |-> built, prev |-> [k \in DOMAIN NoEngineCall |-> engineCall[k]]]
    IN IF cached # 0
       THEN /\ ok
            /\ engineCall' = this(cached, FALSE)
            /\ UNCHANGED <<_engine_instance, _engine_url, _engine_test_mode, engines>>
            /\ UNCHANGED <<environ, service_uow, busVars, txVars>>
       ELSE /\ Len(engines) < MaxEngines
            /\ IF ok
               THEN /\ engines' = Append(engines, [url |-> url, test_mode |-> test_mode])
                    /\ _engine_instance' = Len(engines) + 1
                    /\ _engine_url' = url
                    /\ _engine_test_mode' = test_mode
                    /\ engineCall' = this(Len(engines) + 1, TRUE)
               ELSE /\ _engine_instance' = 0
                    /\ engineCall' = this(0, FALSE)
                    /\ UNCHANGED <<_engine_url, _engine_test_mode, engines>>
            /\ UNCHANGED <<environ, service_uow, busVars, txVars>>

\* --------------------------------------------------------- specifications
Init ==
    /\ subscribers = <<>>
    /\ async_subscribers = <<>>
    /\ subCount = 0
    /\ pub = NoPublish
    /\ trace = <<>>
    /\ tx = IdleTx
    /\ sessions = <<>>
    /\ db = {}
    /\ operations = <<>>
    /\ opTrace = <<>>
    /\ tasks = <<>>
    /\ cleared = NotCleared
    /\ log_file = <<>>
    /\ pubs = <<>>
    /\ replayed = NoReplay
    /\ environ = [app_settings |-> [secret_key |-> "k"],
                  database_url |-> "postgresql+asyncpg://db_a",
                  test_database_url |-> "postgresql+asyncpg://db_b"]
    /\ _engine_instance = 0
    /\ _engine_url = None
    /\ _engine_test_mode = None
    /\ engines = <<>>
    /\ engineCall = [url |-> None, test_mode |-> None, returned |-> 0,
                     built |-> FALSE, prev |-> NoEngineCall]
    /\ service_uow = 0

Subscribing ==
    \/ \E t \in EventTypes, h \in Handlers : subscribe(t, h)
    \/ \E t \in EventTypes, h \in Handlers : subscribe_async(t, h)

Dispatching ==
    \/ HandlerStart
    \/ \E o \in {"return", "raise"} : HandlerEnd(o)

Body ==
    \/ \E ok \in BOOLEAN : CommentRepository_add(ok)
    \/ AsyncRepository_add
    \/ FuncReturn
    \/ FuncRaise

Aexit ==
    \/ \E ok \in BOOLEAN : ExitFirst(ok)
    \/ \E ok \in BOOLEAN : ExitCleanup(ok)
    \/ ExitClose

\* the event bus on its own
NextBus ==
    \/ Subscribing
    \/ \E c \in EventTypes : publish(c)
    \/ \E c \in EventTypes : publish_async(c)
    \/ Dispatching
    \/ PublishReturn

SpecBus == Init /\ [][NextBus]_vars

\* the persistent event bus with handlers subscribed to every event
\* (DomainEvent), which may call replay_events while they run, for all
\* records or for those of the event they are handling
NextPersist ==
    \/ \E h \in Handlers : subscribe("DomainEvent", h)
    \/ \E h \in Handlers : subscribe_async("DomainEvent", h)
    \/ \E c \in ConcreteEvents : PersistentEventBus_publish(c)
    \/ \E c \in ConcreteEvents : PersistentEventBus_publish_async(c)
    \/ \E ok \in BOOLEAN : _log_event(ok)
    \/ Dispatching
    \/ PublishReturn
    \/ \E f \in {None, pub.event} : pub.running /\ replay_events(f, 0)

SpecPersist == Init /\ [][NextPersist]_vars

\* the log of the persistent event bus: publishing and replaying from top
\* level, with no handler subscribed
NextReplay ==
    \/ \E c \in EventTypes : PersistentEventBus_publish(c)
    \/ \E ok \in BOOLEAN : _log_event(ok)
    \/ PublishReturn
    \/ \E f \in EventTypes \cup {None}, k \in 0..Len(log_file) :
          Idle /\ replay_events(f, k)

SpecReplay == Init /\ [][NextReplay]_vars

\* service functions under transactional(), publishing on the shared bus
NextTx ==
    \/ Subscribing
    \/ \E r \in BOOLEAN : transactional(r, TRUE, <<>>)
    \/ Body
    \/ \E k \in {"sync", "async"}, c \in EventTypes : FuncPublish(k, c)
    \/ Dispatching
    \/ FuncPublishDone
    \/ Aexit
    \/ WrapperFinish

SpecTx == Init /\ [][NextTx]_vars

\* argument lists of at most MaxArgs values
ArgLists == UNION {[1..n -> ArgValues] : n \in 0..MaxArgs}

\* one call of a wrapped function with every argument list
NextArgs ==
    \/ \E r \in BOOLEAN, a \in ArgLists : transactional(r, TRUE, a)
    \/ AsyncRepository_add
    \/ FuncReturn
    \/ FuncRaise
    \/ Aexit
    \/ WrapperFinish

SpecArgs == Init /\ [][NextArgs]_vars

\* an operation(uow) run through the decorator and through the base service
\* with every pair of flags, one call after the other
NextWrap ==
    \/ gather(2)
    \/ \E i \in 1..Len(tasks) : tx.pc = "done" /\ TaskSwitch(i)
    \/ \E r \in BOOLEAN, l \in BOOLEAN :
          tx.id # 0 /\ transactional(r, l, <<>>)
    \/ \E r \in BOOLEAN, l \in BOOLEAN :
          tx.id # 0 /\ _execute_in_transaction(r, l)
    \/ AsyncRepository_add
    \/ FuncReturn
    \/ FuncRaise
    \/ Aexit
    \/ WrapperFinish
    \/ ServiceFinish

SpecWrap == Init /\ [][NextWrap]_vars

\* calls of wrapped functions running concurrently
NextConc ==
    \/ \E n \in 2..MaxCalls : gather(n)
    \/ \E i \in 1..Len(tasks) : TaskSwitch(i)
    \/ tx.id # 0 /\ transactional(TRUE, TRUE, <<>>)
    \/ AsyncRepository_add
    \/ FuncReturn
    \/ FuncRaise
    \/ Aexit
    \/ WrapperFinish

SpecConc == Init /\ [][NextConc]_vars

\* bulk transactions
NextBulk ==
    \/ \E op \in Ops : add_operation(op)
    \/ clear
    \/ tx.pc = "idle" /\ execute_all
    \/ BulkInvoke
    \/ Body
    \/ BulkLoopDone
    \/ Aexit
    \/ ExecuteAllFinish

SpecBulk == Init /\ [][NextBulk]_vars

\* the event bus with handlers that subscribe handlers while they run
NextReentrant ==
    \/ Subscribing
    \/ \E c \in EventTypes : publish(c)
    \/ \E c \in EventTypes : publish_async(c)
    \/ Dispatching
    \/ \E a \in {"subscribe", "subscribe_async"}, t \in EventTypes, h \in Handlers :
          handler_subscribes(a, t, h)
    \/ PublishReturn

SpecReentrant == Init /\ [][NextReentrant]_vars

\* the application: handlers registered by the lifespan startup, and use
\* cases (create_user, create_article) that write and publish on the shared bus
NextApp ==
    \/ register_all_event_handlers
    \/ \E r \in BOOLEAN : transactional(r, TRUE, <<>>)
    \/ \E ok \in BOOLEAN : CommentRepository_add(ok)
    \/ \E c \in ConcreteEvents : FuncPublish("sync", c)
    \/ Dispatching
    \/ FuncPublishDone
    \/ FuncReturn
    \/ FuncRaise
    \/ Aexit
    \/ WrapperFinish

SpecApp == Init /\ [][NextApp]_vars

\* wrapped calls that may be cancelled while their function is suspended
NextCancel ==
    \/ \E r \in BOOLEAN : transactional(r, TRUE, <<>>)
    \/ Body
    \/ FuncCancelled
    \/ Aexit
    \/ WrapperFinish

SpecCancel == Init /\ [][NextCancel]_vars

\* execute_all called again on the manager, with no add_operation and no
\* clear() after the first call (the queue holds one operation several times)
NextBulkAgain ==
    \/ tx.pc = "idle" /\ add_operation("op1")
    \/ execute_all
    \/ BulkInvoke
    \/ AsyncRepository_add
    \/ FuncReturn
    \/ FuncRaise
    \/ BulkLoopDone
    \/ Aexit
    \/ ExecuteAllFinish

SpecBulkAgain == Init /\ [][NextBulkAgain]_vars

\* two calls of add_comment_to_article on one CommentServiceOriginal, one
\* after the other or concurrently
NextShared ==
    \/ gather(2)
    \/ \E i \in 1..Len(tasks) : TaskSwitch(i)
    \/ tx.id # 0 /\ add_comment_to_article
    \/ \E ok \in BOOLEAN : CommentRepository_add(ok)
    \/ FuncReturn
    \/ FuncRaise
    \/ Aexit
    \/ add_comment_finish

SpecShared == Init /\ [][NextShared]_vars

\* the engine provider under changes of the environment
NextEngine ==
    \/ \E env \in Environments : setenv(env)
    \/ \E ok \in BOOLEAN : get_async_engine(ok)

SpecEngine == Init /\ [][NextEngine]_vars

\* ------------------------------------------------------------ properties
\* the subscription entries that existed when the current publish call was made
SubscribedAt(reg, p) ==
    {e \in UNION {{[ti |-> ti, hi |-> hi] : hi \in 1..Len(reg[ti].handlers)} :
                  ti \in 1..Len(reg)} :
        reg[e.ti].handlers[e.hi].seq <= p.subs}

\* how many times the current publish call has invoked the entry at (ti, hi)
Invocations(ti, hi) ==
    Cardinality({i \in 1..Len(trace) :
                    trace[i].ev = "start" /\ trace[i].ti = ti /\ trace[i].hi = hi})

\* C1 - handler isolation: no exception escapes publish / publish_async, and
\* when the call has returned every handler subscribed for a type the event is
\* an instance of has been invoked exactly once, whichever handlers raised.
C1_HandlerIsolation ==
    /\ pub.status # "raised"
    /\ pub.status = "returned" =>
          \A e \in SubscribedAt(Registry(pub.kind), pub) :
              IsInstance(pub.event, Registry(pub.kind)[e.ti].event_type)
                  => Invocations(e.ti, e.hi) = 1

\* a publish call has returned in which a handler raised and the handler
\* subscribed after it was still invoked
C1_Witness ==
    /\ pub.status = "returned"
    /\ \E i \in 1..Len(trace) : \E j \in (i + 1)..Len(trace) :
          /\ trace[i].ev = "raise"
          /\ trace[j].ev = "start"
          /\ trace[j].event_type = trace[i].event_type

\* C10 - subscription order and no overlap: within one publish call the
\* handlers of one event type start in the order of their subscribe calls, and
\* every start is directly followed by the end of that same invocation.
C10_SubscriptionOrder ==
    /\ \A i \in 1..Len(trace) : \A j \in (i + 1)..Len(trace) :
          (/\ trace[i].ev = "start"
           /\ trace[j].ev = "start"
           /\ trace[i].event_type = trace[j].event_type)
              => trace[i].seq < trace[j].seq
    /\ \A i \in 1..Len(trace) :
          IF trace[i].ev = "start"
          THEN i < Len(trace) =>
                  /\ trace[i + 1].ev \in {"return", "raise"}
                  /\ trace[i + 1].seq = trace[i].seq
          ELSE /\ i > 1
               /\ trace[i - 1].ev = "start"
               /\ trace[i - 1].seq = trace[i].seq
    /\ pub.running <=> (trace # <<>> /\ trace[Len(trace)].ev = "start")

\* a publish_async call has returned after awaiting two handlers of one type
C10_Witness ==
    /\ pub.status = "returned"
    /\ pub.kind = "async"
    /\ \E i \in 1..Len(trace) : \E j \in (i + 1)..Len(trace) :
          /\ trace[i].ev = "start"
          /\ trace[j].ev = "start"
          /\ trace[i].event_type = trace[j].event_type
          /\ trace[i].handler # trace[j].handler

\* the subscription entries of registry reg
Entries(reg) ==
    UNION {{reg[ti].handlers[hi] : hi \in 1..Len(reg[ti].handlers)} :
           ti \in 1..Len(reg)}

\* C11 - subclass dispatch: a publish call invokes a handler subscribed to
\* type T only if T is the event's class or one of its base classes, and when
\* the call has returned it has invoked every handler subscribed to such a T;
\* handlers of unrelated types and of subclasses of the event's class are not
\* invoked.
C11_SubclassDispatch ==
    /\ \A i \in 1..Len(trace) : trace[i].event_type \in Bases(pub.event)
    /\ pub.status = "returned" =>
          \A e \in SubscribedAt(Registry(pub.kind), pub) :
              (Invocations(e.ti, e.hi) >= 1)
                  <=> (Registry(pub.kind)[e.ti].event_type \in Bases(pub.event))

\* a publish of a UserRegistered event has returned after invoking a handler
\* subscribed to DomainEvent and without invoking the ArticleCreated handler
C11_Witness ==
    /\ pub.status = "returned"
    /\ pub.event = "UserRegistered"
    /\ \E i \in 1..Len(trace) :
          trace[i].ev = "start" /\ trace[i].event_type = "DomainEvent"
    /\ \E ti \in 1..Len(Registry(pub.kind)) :
          /\ Registry(pub.kind)[ti].event_type = "ArticleCreated"
          /\ Invocations(ti, 1) = 0

\* C12 - separate registries: every subscribe call adds one entry to the sync
\* registry and none to the async one, every subscribe_async call the reverse;
\* publish invokes only handlers registered with subscribe and publish_async
\* only handlers registered with subscribe_async.
C12_SeparateRegistries ==
    /\ \A e \in Entries(subscribers) : e.via = "subscribe"
    /\ \A e \in Entries(async_subscribers) : e.via = "subscribe_async"
    /\ {e.seq : e \in Entries(subscribers)}
          \cap {e.seq : e \in Entries(async_subscribers)} = {}
    /\ Cardinality(Entries(subscribers)) + Cardinality(Entries(async_subscribers))
          = subCount
    /\ \A i \in 1..Len(trace) :
          trace[i].via = IF pub.kind = "sync" THEN "subscribe" ELSE "subscribe_async"

\* a publish_async call has returned after invoking the async handler of the
\* event's type while a sync handler is subscribed to that same type
C12_Witness ==
    /\ pub.status = "returned"
    /\ pub.kind = "async"
    /\ \E i \in 1..Len(trace) :
          /\ trace[i].ev = "start"
          /\ trace[i].via = "subscribe_async"
          /\ \E ti \in 1..Len(subscribers) :
                /\ subscribers[ti].event_type = trace[i].event_type
                /\ subscribers[ti].handlers # <<>>

\* the record of the n-th publish call, which published an event of class cls
Record(cls, n) ==
    [timestamp |-> n, event_type |-> cls, event_module |-> EventModule(cls),
     data |-> EventDict(cls)]

\* the publish call in progress (or the latest one) on the persistent bus
ThisPublish == pubs[Len(pubs)]

\* C13 - log before dispatch: in every publish / publish_async call on the
\* persistent bus, _log_event has been called before the first handler is
\* invoked; if it succeeded, the event's record is the last line of the file
\* from then on, and a replay_events call made by a running handler returns a
\* list that ends with that record.
C13_LogBeforeDispatch ==
    (pub.bus = "PersistentEventBus" /\ trace # <<>>) =>
        /\ ThisPublish.logged # "pending"
        /\ ThisPublish.logged = "yes" =>
              /\ log_file # <<>>
              /\ json_loads(log_file[Len(log_file)]) = Record(pub.event, Len(pubs))
              /\ (replayed.called /\ replayed.during) =>
                    /\ replayed.events # <<>>
                    /\ replayed.events[Len(replayed.events)]
                          = Record(pub.event, Len(pubs))

\* a handler of a publish_async call, running after two earlier events were
\* logged, has replayed the log and got the record of the event it handles
C13_Witness ==
    /\ pub.bus = "PersistentEventBus"
    /\ pub.kind = "async"
    /\ pub.running
    /\ replayed.called /\ replayed.during
    /\ Len(log_file) = 3
    /\ replayed.events[Len(replayed.events)] = Record(pub.event, 3)

\* C14 - logging failure never blocks dispatch: no exception escapes a publish
\* / publish_async call on the persistent bus, and when the call has returned
\* every handler subscribed for the event has been invoked exactly once, in
\* subscription order, whether or not _log_event could write the record.
C14_LoggingNeverBlocks ==
    pub.bus = "PersistentEventBus" =>
        /\ pub.status # "raised"
        /\ pub.status = "returned" =>
              /\ ThisPublish.logged \in {"yes", "no"}
              /\ \A e \in SubscribedAt(Registry(pub.kind), pub) :
                    Registry(pub.kind)[e.ti].event_type \in Bases(pub.event)
                        => Invocations(e.ti, e.hi) = 1
              /\ \A i \in 1..Len(trace) : \A j \in (i + 1)..Len(trace) :
                    (trace[i].ev = "start" /\ trace[j].ev = "start")
                        => trace[i].seq < trace[j].seq

\* a publish call whose record could not be written has returned after
\* invoking both subscribed handlers
C14_Witness ==
    /\ pub.bus = "PersistentEventBus"
    /\ pub.status = "returned"
    /\ ThisPublish.logged = "no"
    /\ Cardinality({i \in 1..Len(trace) : trace[i].ev = "start"}) = 2

\* the records of the publish calls numbered in ns, in that order
RecordsOf(ns) == [k \in 1..Len(ns) |-> Record(pubs[ns[k]].event, ns[k])]

\* the publish calls made so far, and those whose record was written
AllPublishes == [i \in 1..Len(pubs) |-> i]
LoggedPublishes == SelectSeq(AllPublishes, LAMBDA i : pubs[i].logged = "yes")

\* the records among rs whose event_type equals name (all of them for None)
Filtered(rs, name) == SelectSeq(rs, LAMBDA r : name = None \/ r.event_type = name)

\* s is an initial part of t
IsPrefix(s, t) == Len(s) <= Len(t) /\ s = SubSeq(t, 1, Len(s))

\* C15 as stated - replay round-trip: replay_events(None) returns one record
\* per publish call made so far, in publish order, and replay_events(name)
\* the records among them whose event_type is name, in the same order.
C15_Original ==
    replayed.called =>
        replayed.events = Filtered(RecordsOf(AllPublishes), replayed.filter)

\* C15 amended - the log file holds one line per publish call whose record
\* _log_event could write, in publish order, and replay_events leaves it so;
\* replay_events(None) returns the records of those lines in order and
\* replay_events(name) the ones among them whose event_type is name, unless
\* reading the file raises, in which case it returns the records (passing the
\* filter) of the lines read before the failure.
C15_ReplayRoundTrip ==
    /\ [i \in 1..Len(log_file) |-> json_loads(log_file[i])]
          = RecordsOf(LoggedPublishes)
    /\ replayed.called =>
          /\ replayed.at = Len(pubs)
          /\ IF replayed.failed
             THEN IsPrefix(replayed.events,
                           Filtered(RecordsOf(LoggedPublishes), replayed.filter))
             ELSE replayed.events
                    = Filtered(RecordsOf(LoggedPublishes), replayed.filter)

\* after publishing A, B, A with every record written, replay_events("A")
\* has returned the two A records in order
C15_Witness ==
    /\ Len(pubs) = 3
    /\ \A i \in 1..3 : pubs[i].logged = "yes"
    /\ pubs[1].event = "UserRegistered"
    /\ pubs[2].event = "ArticleCreated"
    /\ replayed.called /\ ~replayed.failed
    /\ replayed.filter = "UserRegistered"
    /\ replayed.events = <<Record("UserRegistered", 1), Record("UserRegistered", 3)>>

\* the calls __aexit__ made on session s, in order
ExitCalls(s) == SelectSeq(s.log, LAMBDA c : c.at # "body")

\* the calls named op among the calls cs
CallsOf(cs, op) == SelectSeq(cs, LAMBDA c : c.op = op)

\* the session of the current call
Session == sessions[tx.uow]

\* a wrapper call has finished whose business function returned / raised
WrapperDone == tx.pc = "done" /\ tx.kind = "transactional"
FuncReturned == tx.exc = None
FuncRaised == tx.exc # None

\* the scope exit committed, did not roll back, and then closed the session
CommittedAndClosed(s) ==
    /\ ExitCalls(s) = <<Call("commit", "exit", TRUE), Call("close", "exit", TRUE)>>
    /\ ~s.open

\* the scope exit called rollback first, never called commit, closed the
\* session last, and left nothing pending
RolledBackAndClosed(s) ==
    /\ ExitCalls(s)[1].op = "rollback"
    /\ CallsOf(ExitCalls(s), "commit") = <<>>
    /\ ExitCalls(s)[Len(ExitCalls(s))].op = "close"
    /\ Len(CallsOf(ExitCalls(s), "close")) = 1
    /\ ~s.open
    /\ s.pending = {}

\* C2 as stated - commit-on-success: whenever the business function completes
\* without raising, the wrapped call returns its result and the scope exit has
\* committed the session, never rolled it back, and closed it.
C2_Original ==
    (WrapperDone /\ FuncReturned) =>
        /\ tx.outcome = [kind |-> "returned", value |-> tx.result]
        /\ CommittedAndClosed(Session)

\* C2 amended - whenever the business function completes without raising, the
\* scope exit calls session.commit() first and session.close() last, exactly
\* once; if that commit succeeds the call returns the function's result and
\* the session was never rolled back; if it raises, a rollback is attempted,
\* and the caller gets the commit's exception (reraise) or None (no reraise).
C2_CommitOnSuccess ==
    (WrapperDone /\ FuncReturned) =>
        /\ tx.result = FuncResult
        /\ ExitCalls(Session)[1].op = "commit"
        /\ ~Session.open
        /\ IF ExitCalls(Session)[1].ok
           THEN /\ tx.outcome = [kind |-> "returned", value |-> FuncResult]
                /\ CommittedAndClosed(Session)
           ELSE /\ tx.outcome = IF tx.reraise
                                 THEN [kind |-> "raised", value |-> ExitCommitError]
                                 ELSE [kind |-> "returned", value |-> None]
                /\ Len(ExitCalls(Session)) = 3
                /\ ExitCalls(Session)[2].op = "rollback"
                /\ ExitCalls(Session)[3] = Call("close", "exit", TRUE)

\* a wrapped call has returned the result of a function that left a row
\* pending, and the scope exit has made that row durable
C2_Witness ==
    /\ WrapperDone /\ FuncReturned
    /\ tx.outcome = [kind |-> "returned", value |-> FuncResult]
    /\ \E r \in db : r.session = tx.uow
    /\ CallsOf(Session.log, "commit") = <<Call("commit", "exit", TRUE)>>

\* C3 - rollback-on-failure: whenever the business function raises e under
\* reraise=True, the scope exit rolls back (never commits), then closes the
\* session, and the caller observes that same exception e.
C3_RollbackOnFailure ==
    (WrapperDone /\ FuncRaised /\ tx.reraise) =>
        /\ RolledBackAndClosed(Session)
        /\ tx.outcome = [kind |-> "raised", value |-> tx.exc]

\* C4 - session always released: no session is closed twice, close() is the
\* last call made on a session, and once the scope has been exited (cleanly,
\* with a business exception, with commit raising or with rollback raising)
\* close() has been called exactly once and the session is no longer open.
C4_SessionReleased ==
    \A i \in 1..Len(sessions) :
        LET s == sessions[i]
            closes == CallsOf(s.log, "close")
        IN /\ Len(closes) <= 1
           /\ s.open <=> closes = <<>>
           /\ closes # <<>> => s.log[Len(s.log)].op = "close"
           /\ (i # tx.uow \/ tx.pc \in {"after_with", "done"}) => Len(closes) = 1

\* a scope has been exited on the path where rollback raised twice
C4_Witness ==
    /\ tx.pc = "after_with"
    /\ tx.cleanup = ExitRollbackError
    /\ ExitCalls(Session) = <<Call("rollback", "exit", FALSE),
                              Call("rollback", "cleanup", FALSE),
                              Call("close", "exit", TRUE)>>

\* C6 as stated - a broken handler never fails the transaction: if a handler
\* raised during a publish made by the business function, the function goes
\* on, its result is returned to the caller, and the scope exits with a commit.
C6_Original ==
    /\ tx.exc # HandlerError
    /\ (WrapperDone /\ tx.handlerFailed /\ FuncReturned) =>
          /\ tx.outcome = [kind |-> "returned", value |-> tx.result]
          /\ CommittedAndClosed(Session)

\* C6 amended - if a handler raised during a publish made by the business
\* function, the handler's exception never reaches the function, which goes
\* on after the publish call; when it then returns, the scope exit is entered
\* without an exception and calls commit, not rollback, and its result is
\* returned to the caller unless that commit itself raises.
C6_BrokenHandlerHarmless ==
    /\ tx.exc # HandlerError
    /\ (tx.handlerFailed /\ tx.pc = "in_func") => tx.exc = None
    /\ (WrapperDone /\ tx.handlerFailed /\ FuncReturned) =>
          /\ ExitCalls(Session)[1].op = "commit"
          /\ ExitCalls(Session)[1].ok =>
                /\ tx.outcome = [kind |-> "returned", value |-> FuncResult]
                /\ CommittedAndClosed(Session)

\* a wrapped call has returned its function's result although a handler
\* raised while the function was publishing
C6_Witness ==
    /\ WrapperDone /\ tx.handlerFailed /\ FuncReturned
    /\ tx.outcome = [kind |-> "returned", value |-> FuncResult]
    /\ CommittedAndClosed(Session)

\* C7 - with reraise=False, whenever the business function raises, the
\* wrapped call raises nothing and returns None, and the scope exit has called
\* rollback (never commit) and closed the session, with nothing left pending.
C7_SwallowReturnsNone ==
    (WrapperDone /\ FuncRaised /\ ~tx.reraise) =>
        /\ tx.outcome = [kind |-> "returned", value |-> None]
        /\ RolledBackAndClosed(Session)

\* a call wrapped with reraise=False has returned None after its function
\* raised with a row pending, and the row did not become durable
C7_Witness ==
    /\ WrapperDone /\ FuncRaised /\ ~tx.reraise
    /\ tx.exc = BusinessError
    /\ tx.steps > 0
    /\ db = {}
    /\ tx.outcome = [kind |-> "returned", value |-> None]

\* an execute_all call on a non-empty queue has finished
BulkDone == tx.pc = "done" /\ tx.kind = "bulk" /\ tx.uow # 0

\* the rows of the current call's session that are durable
DurableRows == {r \in db : r.session = tx.uow}

\* C5 - bulk all-or-nothing: when op1 has written through CommentRepository.add
\* and op2 then raises, execute_all raises op2's exception and no row written
\* by op1 is left in the database for a later transaction to read.
C5_BulkAllOrNothing ==
    (/\ BulkDone
     /\ tx.opi = 2
     /\ tx.exc = BusinessError
     /\ CallsOf(Session.log, "commit") # <<>>) =>
        /\ tx.outcome.kind = "raised"
        /\ tx.outcome.value = tx.exc
        /\ DurableRows = {}

\* C8 - bulk failure aborts the batch: when the k-th operation raises, that
\* exception reaches the caller of execute_all, no operation after position k
\* has been invoked, the scope exit rolled back and did not commit, and no
\* result list is returned.
C8_BulkFailureAborts ==
    (BulkDone /\ FuncRaised) =>
        /\ tx.outcome.kind = "raised"
        /\ tx.outcome.value = tx.exc
        /\ Len(opTrace) = tx.opi
        /\ RolledBackAndClosed(Session)

\* every queued operation was invoked once, in registration order, with the
\* one UoW of the call
InvokedInOrder ==
    /\ Len(sessions) = 1
    /\ opTrace = [i \in 1..Len(tx.queued) |->
                     [op |-> tx.queued[i], pos |-> i, uow |-> tx.uow]]

\* the result list [r1..rN] of the operations queued when execute_all was called
ResultList == [i \in 1..Len(tx.queued) |-> OpResult(tx.queued[i])]

\* C9 as stated - when every queued operation succeeds, execute_all opens one
\* UoW, invokes each operation once in registration order with that UoW, and
\* returns the list of their results in that order.
C9_Original ==
    (BulkDone /\ FuncReturned) =>
        /\ InvokedInOrder
        /\ tx.outcome.kind = "returned"
        /\ tx.outcome.value = ResultList

\* C9 amended - when every queued operation succeeds, execute_all opens one
\* UoW and invokes each operation once in registration order with that UoW;
\* it returns the list of their results in that order if the commit at scope
\* exit succeeds, and raises the commit's exception if it does not.
C9_BulkInOrder ==
    (BulkDone /\ FuncReturned) =>
        /\ InvokedInOrder
        /\ ExitCalls(Session)[1].op = "commit"
        /\ IF ExitCalls(Session)[1].ok
           THEN /\ tx.outcome.kind = "returned"
                /\ tx.outcome.value = ResultList
           ELSE tx.outcome = [kind |-> "raised", value |-> ExitCommitError]

\* execute_all has returned the results of two different operations
C9_Witness ==
    /\ BulkDone /\ FuncReturned
    /\ Len(tx.queued) = 2
    /\ tx.queued[1] # tx.queued[2]
    /\ tx.outcome.kind = "returned"
    /\ tx.outcome.value = <<OpResult(tx.queued[1]), OpResult(tx.queued[2])>>

\* C20 - idempotent queue clear: after any number of add_operation calls
\* followed by clear() the queue is empty, and an execute_all called then
\* returns [] at once, invokes no operation and opens no UoW; add_operation
\* and clear() open no UoW and touch no session or row; a second clear()
\* changes nothing of the manager, its queue, the sessions or the database.
C20_ClearIdempotent ==
    /\ [](/\ cleared.n >= 1 => operations = <<>>
          /\ tx.pc = "idle" => (sessions = <<>> /\ db = {})
          /\ (tx.kind = "bulk" /\ tx.afterClear) =>
                /\ tx.pc = "done"
                /\ tx.outcome.kind = "returned"
                /\ tx.outcome.value = <<>>
                /\ tx.uow = 0
                /\ opTrace = <<>>
                /\ sessions = <<>>
                /\ db = {})
    /\ [][(cleared.n >= 1 /\ cleared'.n > cleared.n)
             => UNCHANGED <<operations, tx, sessions, db, opTrace>>]_vars

\* execute_all has returned [] after two operations were queued and clear()
\* was called twice
C20_Witness ==
    /\ tx.kind = "bulk"
    /\ tx.afterClear
    /\ tx.pc = "done"
    /\ tx.outcome.kind = "returned"
    /\ cleared.n = 2
    /\ cleared.dropped >= 2

\* the concurrent calls that have constructed their UoW
Started == {c \in 1..Len(tasks) : Frame(c).uow # 0}

\* the session of call c shows the calls of c's own scope exit and no others:
\* none while c is in its function, and afterwards a first call that is the
\* commit or the rollback c's own outcome asks for, and one close
OwnExitOnly(f, s) ==
    /\ Len(CallsOf(s.log, "close")) <= 1
    /\ f.pc \in {"in_func", "exit_first"} =>
          /\ s.open
          /\ s.log = <<>>
          /\ Cardinality(s.pending) = f.steps
    /\ f.pc \in {"exit_cleanup", "exit_close", "after_with", "done"} =>
          /\ ExitCalls(s)[1].op = IF f.exc = None THEN "commit" ELSE "rollback"
          /\ Len(CallsOf(s.log, "commit")) = IF f.exc = None THEN 1 ELSE 0
    /\ f.pc \in {"after_with", "done"} =>
          /\ ~s.open
          /\ s.log[Len(s.log)].op = "close"

\* C16 - fresh, isolated transaction per call: every concurrent call has a
\* UoW and session of its own, one session exists per started call, each
\* session is committed, rolled back and closed only by the scope exit of the
\* call that opened it (the writes pending in it stay until then), a row is
\* durable only if the call that wrote it returned, and when every call has
\* finished every session is closed.
C16_IsolatedTransactions ==
    tasks # <<>> =>
        /\ \A c \in Started : \A d \in Started : c # d => Frame(c).uow # Frame(d).uow
        /\ Len(sessions) = Cardinality(Started)
        /\ \A c \in Started : OwnExitOnly(Frame(c), sessions[Frame(c).uow])
        /\ \A c \in Started : \A r \in db :
              r.session = Frame(c).uow => Frame(c).exc = None
        /\ (\A c \in 1..Len(tasks) : Frame(c).pc = "done") =>
              \A i \in 1..Len(sessions) : ~sessions[i].open

\* a call has failed, rolled back and closed its session while another call,
\* started before it, is still in its function with its write pending
C16_Witness ==
    /\ tasks # <<>>
    /\ \E c \in Started : \E d \in Started :
          /\ Frame(c).uow < Frame(d).uow
          /\ Frame(c).pc = "in_func"
          /\ Frame(c).steps > 0
          /\ sessions[Frame(c).uow].pending # {}
          /\ Frame(d).pc = "done"
          /\ Frame(d).exc = BusinessError
          /\ ~sessions[Frame(d).uow].open

\* a call of the decorator's wrapper has invoked its function
WrapperCalled == tx.kind = "transactional" /\ tx.pc # "idle"

\* C17 as stated - the wrapper invokes f exactly once as f(uow, a1, ..., an),
\* whatever the value of a1 is.
C17_Original ==
    WrapperCalled => tx.fcalls = << <<UowArg>> \o tx.args >>

\* C17 amended - the wrapper invokes f exactly once, with the caller's n
\* arguments and the UoW: as f(uow, a1, ..., an) when there is no argument or
\* a1 has no attribute named like f, and as f(a1, uow, a2, ..., an) when a1 has
\* such an attribute (a1 is then taken for the self of a method); the
\* caller's arguments are passed unchanged and in order in both cases.
C17_UowInjected ==
    WrapperCalled =>
        /\ Len(tx.fcalls) = 1
        /\ LET got == tx.fcalls[1]
               n == Len(tx.args)
           IN /\ Len(got) = n + 1
              /\ IF n > 0 /\ HasAttr(tx.args[1])
                 THEN /\ got[1] = tx.args[1]
                      /\ got[2] = UowArg
                      /\ \A i \in 2..n : got[i + 1] = tx.args[i]
                 ELSE /\ got[1] = UowArg
                      /\ \A i \in 1..n : got[i + 1] = tx.args[i]

\* a wrapped method called as wrapper(svc, x) has run as f(svc, uow, x) and
\* the call has returned
C17_Witness ==
    /\ WrapperDone
    /\ tx.args = <<"svc", "x">>
    /\ tx.fcalls = << <<"svc", UowArg, "x">> >>
    /\ tx.outcome.kind = "returned"

Inputs(f) ==
    [reraise |-> f.reraise, log_errors |-> f.log_errors,
     steps |-> f.steps, exc |-> f.exc,
     oks |-> [i \in 1..Len(sessions[f.uow].log) |-> sessions[f.uow].log[i].ok]]

\* the steps of the UoW of call f: open, then the session calls in order
UowSteps(f) ==
    <<"open">> \o [i \in 1..Len(sessions[f.uow].log) |-> sessions[f.uow].log[i].op]

\* C19 - the base service offers the decorator's semantics: a call of
\* transactional(reraise, log_errors)(op)() and a call of
\* _execute_in_transaction(op, reraise, log_errors) in which op behaves alike
\* and the session calls end alike have the same outcome (the same returned
\* value, or None, or the same exception), the same sequence of UoW steps,
\* and log an error in the same cases.
C19_ServiceMatchesDecorator ==
    \A c \in 1..Len(tasks) : \A d \in 1..Len(tasks) :
        (/\ Frame(c).pc = "done" /\ Frame(c).kind = "transactional"
         /\ Frame(d).pc = "done" /\ Frame(d).kind = "service"
         /\ Inputs(Frame(c)) = Inputs(Frame(d))) =>
            /\ Frame(c).outcome = Frame(d).outcome
            /\ UowSteps(Frame(c)) = UowSteps(Frame(d))
            /\ Frame(c).logged = Frame(d).logged
            /\ Frame(c).fcalls = Frame(d).fcalls

\* the decorator and the base service, both with reraise=False and
\* log_errors=False, have returned None for an operation that wrote a row
\* and raised, after the same open, rollback, close
C19_Witness ==
    /\ Len(tasks) = 2
    /\ Frame(1).pc = "done" /\ Frame(2).pc = "done"
    /\ Frame(1).kind # Frame(2).kind
    /\ Inputs(Frame(1)) = Inputs(Frame(2))
    /\ ~Frame(1).reraise /\ ~Frame(1).log_errors
    /\ Frame(1).exc = BusinessError /\ Frame(1).steps > 0
    /\ Frame(1).outcome = [kind |-> "returned", value |-> None]
    /\ UowSteps(Frame(2)) = <<"open", "rollback", "close">>

\* the engine the latest call returned, as create_async_engine built it
Returned == engines[engineCall.returned]

\* the latest two calls saw the same connection string and test mode, and
\* the earlier one returned an engine
Unchanged ==
    /\ engineCall.prev.returned # 0
    /\ engineCall.prev.url = engineCall.url
    /\ engineCall.prev.test_mode = engineCall.test_mode

\* C21 - engine cache coherence: two consecutive get_async_engine() calls that
\* see the same connection string and test mode return the identical engine
\* and build none; a call never returns an engine built for a connection
\* string or test mode other than the current one; and while an engine is
\* cached, _engine_url and _engine_test_mode are what it was built with.
C21_EngineCacheCoherence ==
    /\ engineCall.returned # 0 =>
          /\ Returned = [url |-> engineCall.url, test_mode |-> engineCall.test_mode]
          /\ Unchanged =>
                /\ engineCall.returned = engineCall.prev.returned
                /\ ~engineCall.built
    /\ _engine_instance # 0 =>
          engines[_engine_instance] =
              [url |-> _engine_url, test_mode |-> _engine_test_mode]

\* after the connection string changed with the test mode left alone, a call
\* has built a second engine for the new connection string, and the call
\* after it has returned that same engine
C21_Witness ==
    /\ Len(engines) = 2
    /\ engines[1].url # engines[2].url
    /\ engines[1].test_mode = engines[2].test_mode
    /\ engineCall.returned = 2
    /\ ~engineCall.built
    /\ Unchanged

\* the scope of the current call was left with an exception of the body, and
\* the rollback __aexit__ called for it raised
RollbackFailed ==
    /\ tx.pc \in {"after_with", "done"}
    /\ tx.uow # 0
    /\ tx.exc # None
    /\ ExitCalls(Session)[1] = Call("rollback", "exit", FALSE)

\* C22 - rollback failure keeps the original exception: when a UoW scope
\* exits because of an exception e and session.rollback() raises r, the
\* session is still closed and the exception that leaves the scope, and
\* reaches the caller under reraise=True, is e and not r.
C22_RollbackFailureKeepsOriginal ==
    RollbackFailed =>
        /\ ~Session.open
        /\ Propagating(tx) = tx.exc
        /\ (WrapperDone /\ tx.reraise) =>
              tx.outcome = [kind |-> "raised", value |-> tx.exc]

\* C23 as stated - handlers fire after the commit: a handler of an event
\* published by a transactional use case is invoked only after the UoW has
\* committed at scope exit, never while the transaction is uncommitted.
C23_Original ==
    (tx.kind = "transactional" /\ trace # <<>>) =>
        /\ tx.pc \in {"after_with", "done"}
        /\ ExitCalls(Session)[1] = Call("commit", "exit", TRUE)

\* C23 amended - handlers fire before the commit: a handler of an event
\* published by a transactional use case is invoked only during the publish
\* call inside the business function, before the UoW's scope exit has
\* committed, rolled back or closed the session; every invocation happens
\* while the scope exit has not yet committed the transaction, whether it
\* later commits or ends in a rollback.
C23_HandlersBeforeCommit ==
    (tx.kind = "transactional" /\ trace # <<>>) =>
        /\ tx.pc = "in_publish"
        /\ tx.exc = None
        /\ Session.open
        /\ ExitCalls(Session) = <<>>

\* a handler of the event a use case published with publish() has been
\* invoked and has returned while the session of the use case is open and
\* neither committed nor rolled back
C23_Witness ==
    /\ tx.kind = "transactional"
    /\ tx.pc = "in_publish"
    /\ pub.kind = "sync"
    /\ \E i \in 1..Len(trace) : trace[i].ev = "return"
    /\ Session.open
    /\ Session.log = <<>>

\* the sessions that are open
OpenSessions == {i \in 1..Len(sessions) : sessions[i].open}

\* the calls that are inside the scope of the service's UoW
InScope ==
    {c \in 1..Len(tasks) :
        Frame(c).pc \in {"in_func", "exit_first", "exit_cleanup", "exit_close"}}

\* C24 - UoW lifecycle at most once per instance: the one UoW a
\* CommentServiceOriginal holds is entered successfully at most once, so it
\* creates at most one session, has at most one open session in every state,
\* and the only session that can be open is the one it holds.
C24_LifecycleOnce ==
    /\ Len(sessions) <= 1
    /\ Cardinality(OpenSessions) <= 1
    /\ \A i \in OpenSessions : i = service_uow

\* the session call f opened shows the calls of f's own scope exit and no
\* others: none while f is in its function, and once f has left the scope a
\* first call that is the commit or the rollback f's outcome asks for, and
\* one close
ExitsOwnSession(f, s) ==
    /\ f.pc \in {"in_func", "exit_first"} =>
          /\ s.open
          /\ ExitCalls(s) = <<>>
    /\ f.pc \in {"after_with", "done"} =>
          /\ ~s.open
          /\ Len(CallsOf(s.log, "close")) = 1
          /\ ExitCalls(s)[1].op = IF f.exc = None THEN "commit" ELSE "rollback"

\* C25 - a UoW is never shared across concurrent operations: of the
\* concurrent calls on one CommentServiceOriginal at most one is inside the
\* scope of its UoW at a time, and each call's scope exit commits or rolls
\* back and closes the session that call opened and no other.
C25_NeverShared ==
    tasks # <<>> =>
        /\ Cardinality(InScope) <= 1
        /\ \A c \in Started : ExitsOwnSession(Frame(c), sessions[Frame(c).uow])

\* C26 - the bulk queue is cleared after execution: once execute_all() has
\* completed, with results or with an exception, the queue is empty, and an
\* execute_all() that follows it at once returns [] without opening a UoW or
\* invoking any operation a second time.
C26_QueueClearedAfterExecution ==
    /\ BulkDone => operations = <<>>
    /\ (tx.kind = "bulk" /\ tx.run >= 2) =>
          /\ tx.pc = "done"
          /\ tx.uow = 0
          /\ opTrace = <<>>
          /\ tx.outcome = [kind |-> "returned", value |-> <<>>]

\* C27 - cancellation is handled like any other exception at the UoW: when
\* CancelledError is raised into the suspended business function of a wrapped
\* call, the scope exit calls rollback first, never commits, and closes the
\* session last and once, as it does when the function raises an ordinary
\* exception.
C27_CancellationRollsBack ==
    (/\ tx.kind = "transactional"
     /\ tx.pc \in {"after_with", "done"}
     /\ tx.exc \in {CancelledError, BusinessError}) =>
        RolledBackAndClosed(Session)

\* a call with reraise=False was cancelled after its function had written a
\* row: the scope exit rolled back and closed, the row is not durable, and
\* the caller got the CancelledError
C27_Witness ==
    /\ WrapperDone
    /\ tx.exc = CancelledError
    /\ ~tx.reraise
    /\ tx.steps > 0
    /\ db = {}
    /\ ExitCalls(Session) = <<Call("rollback", "exit", TRUE), Call("close", "exit", TRUE)>>
    /\ tx.outcome = [kind |-> "raised", value |-> CancelledError]

\* the publish call a use case made has run through its loops and is about
\* to return to the use case
PublishOver ==
    /\ tx.pc = "in_publish"
    /\ pub.status = "iterating"
    /\ pub.pos = EndPos
    /\ ~pub.running

\* the handlers register_all_event_handlers registers for the class cls
RegisteredFor(cls) ==
    {Registrations[k].handler : k \in {j \in 1..Len(Registrations) :
                                          IsInstance(cls, Registrations[j].event_type)}}

\* how many times the current publish call has invoked handler h
TimesInvoked(h) ==
    Cardinality({i \in 1..Len(trace) : trace[i].ev = "start" /\ trace[i].handler = h})

\* C28 - published events reach their handlers: once
\* register_all_event_handlers() has run, the publish call a use case makes
\* (UserRegistered from create_user) has invoked, by the time it returns,
\* every handler registered for the event's type (handle_user_registered,
\* handle_user_registered_for_recommendations).
C28_PublishedEventsDelivered ==
    (PublishOver /\ pub.subs >= Len(Registrations)) =>
        \A h \in RegisteredFor(pub.event) : TimesInvoked(h) >= 1

\* C29 - handler registration is idempotent: however many times
\* register_all_event_handlers() has run, no handler is subscribed twice to
\* one event type, and a publish call invokes each handler subscribed in the
\* registry it iterates exactly once.
C29_RegistrationIdempotent ==
    /\ \A reg \in {subscribers, async_subscribers} : \A ti \in 1..Len(reg) :
          \A hi, hj \in 1..Len(reg[ti].handlers) :
              hi # hj => reg[ti].handlers[hi].handler # reg[ti].handlers[hj].handler
    /\ PublishOver =>
          \A e \in Entries(Registry(pub.kind)) :
              (e.seq <= pub.subs /\ e.handler \in RegisteredFor(pub.event))
                  => TimesInvoked(e.handler) = 1

\* C30 - publish is safe against handlers that subscribe during dispatch: no
\* exception escapes the publish call, and when it has returned every handler
\* that was subscribed before the call for a type of the event has been
\* invoked exactly once.
C30_SubscribeDuringDispatch ==
    /\ pub.status # "raised"
    /\ pub.status = "returned" =>
          \A e \in SubscribedAt(Registry(pub.kind), pub) :
              IsInstance(pub.event, Registry(pub.kind)[e.ti].event_type)
                  => Cardinality({i \in 1..Len(trace) :
                                     /\ trace[i].ev = "start"
                                     /\ trace[i].seq = Registry(pub.kind)[e.ti].handlers[e.hi].seq})
                     = 1

====
